---- MODULE Spec2Model ----
(***************************************************************************)
(* The challenge workflow of Gnosis: the LangGraph pipeline of             *)
(* src/challenge_graph.py (tutor_agent -> coding_challenge_agent ->        *)
(* await_code -> code_evaluator -> {END | remediation_agent -> await_code})*)
(* with its checkpointed state, driven by the two entry points of          *)
(* src/app.py, get_challenge and submit_challenge.                         *)
(*                                                                         *)
(* A Python dict key that is missing is the value Absent, the value None   *)
(* is None.  The language-model calls are opaque: every node draws its     *)
(* collaborator's outcome (a result, or an exception) nondeterministically.*)
(* The checkpoint of a thread is written after every graph step, so every  *)
(* state of the model between two steps is a persisted state.              *)
(***************************************************************************)
EXTENDS Integers, Sequences, FiniteSets, TLC

VARIABLES
    ckpt,   \* thread_id -> the checkpoint SqliteSaver holds for the thread
    db,     \* exercise -> the challenge-progress row of learning_system.db
    req,    \* request slot -> the request being served (its position and locals)
    user,   \* what learning_system.db holds of the single user
    calc    \* a call of one of the pure functions: its arguments and its result

vars == <<ckpt, db, req, user, calc>>

(***************************************************************************)
(* Bounds of the model.                                                    *)
(***************************************************************************)
\* A submit is taken by the model only while the thread's history has fewer
\* than MaxAttempts entries (the program itself has no such limit).
MaxAttempts == 4

(***************************************************************************)
(* Values.                                                                 *)
(***************************************************************************)
Absent == "absent"
None == "None"

\* The exercises (module_number, challenge_number) of the single user.
Exercises == {<<1, 1>>}
Slots == {"r1"}

\* What the generators can produce.
Lessons == {"L1", "L2"}
Challenges == {"C1", "C2"}
\* request.code is any str, the empty one included.
Codes == {"", "x"}

Nodes == {"tutor_agent", "coding_challenge_agent", "await_code",
          "code_evaluator", "remediation_agent"}
END == "__end__"
START == "__start__"

\* bool(v) of Python for the values of the model.
Truthy(v) == v \notin {Absent, None, ""}

UncappedHintLevel(n) == n

\* min(attempt_count, 3)
MaxHintLevel == 3
HintLevel(n) == IF n < MaxHintLevel THEN n ELSE MaxHintLevel

\* str(n) of an int, as the sequence of its characters.
Digit(d) == <<"0", "1", "2", "3", "4", "5", "6", "7", "8", "9">>[d + 1]

RECURSIVE DigitsOf(_)
DigitsOf(n) == IF n < 10 THEN <<Digit(n)>> ELSE DigitsOf(n \div 10) \o <<Digit(n % 10)>>

Decimal(n) == IF n < 0 THEN <<"-">> \o DigitsOf(0 - n) ELSE DigitsOf(n)

SessionIdNoSeparators(user_id, module_number, challenge_number) ==
    <<"u", "s", "e", "r">> \o Decimal(user_id)
        \o Decimal(module_number) \o Decimal(challenge_number)

SessionIdPerModule(user_id, module_number, challenge_number) ==
    <<"u", "s", "e", "r", "_">> \o Decimal(user_id) \o <<"_", "m">> \o Decimal(module_number)

\* f"user_{user_id}_m{module_number}_c{challenge_number}", a string (the
\* sequence of its characters)
SessionId(user_id, module_number, challenge_number) ==
    <<"u", "s", "e", "r", "_">> \o Decimal(user_id)
        \o <<"_", "m">> \o Decimal(module_number)
        \o <<"_", "c">> \o Decimal(challenge_number)

\* The same f-string, written out again in submit_challenge.
SubmitSessionId(user_id, module_number, challenge_number) ==
    <<"u", "s", "e", "r", "_">> \o Decimal(user_id)
        \o <<"_", "m">> \o Decimal(module_number)
        \o <<"_", "c">> \o Decimal(challenge_number)

\* {"configurable": {"thread_id": session_id}}
get_thread_config(session_id) == [thread_id |-> session_id]

ThreadOf(e) == get_thread_config(SessionId(1, e[1], e[2])).thread_id
Threads == {ThreadOf(e) : e \in Exercises}

(***************************************************************************)
(* ChallengeState.  evaluation and remediation are documents: `key' tells  *)
(* whether the dict has the key at all.                                    *)
(***************************************************************************)
NoEvaluation == [key |-> FALSE, verdict |-> Absent, of |-> Absent]
NoRemediation == [key |-> FALSE, hint_level |-> 0]

\* The decoded evaluation document for a submission: verdict "pass" or "fail"
\* is its "passed" member, "no_verdict" a document that has no such member.
EvaluationDoc(verdict, code) == [key |-> TRUE, verdict |-> verdict, of |-> code]

\* The values of a thread that has no checkpoint yet.
EmptyValues ==
    [ session_id |-> Absent,
      status |-> Absent,
      attempt_count |-> 0,
      submission_history |-> <<>>,
      max_attempts |-> 0,
      user_code |-> Absent,
      lesson_markdown |-> Absent,
      coding_challenge |-> Absent,
      evaluation |-> NoEvaluation,
      remediation |-> NoRemediation,
      completed_at |-> Absent,
      error |-> Absent,
      error_node |-> Absent ]

NoCheckpoint == [exists |-> FALSE, values |-> EmptyValues, next |-> START, last |-> START]

\* The keys create_initial_state returns, written over the thread's values;
\* every other channel keeps the value the checkpoint holds.
DefaultMaxAttempts == 3
create_initial_state(values, sid) ==
    [values EXCEPT !.session_id = sid,
                   !.max_attempts = DefaultMaxAttempts,
                   !.attempt_count = 0,
                   !.submission_history = <<>>,
                   !.status = "creating_lesson"]

(***************************************************************************)
(* The stage functions.  `out' is what the stage's collaborator does:      *)
(* [kind |-> "ok", val |-> v] returns v, [kind |-> "raise"] raises.        *)
(***************************************************************************)
FailedKeepsNode(state, message, node) ==
    [state EXCEPT !.error = message, !.status = "error"]

\* The except branch of a stage: {**state, "error": str(e), "error_node": ..., "status": "error"}
Failed(state, message, node) ==
    [state EXCEPT !.error = message, !.error_node = node, !.status = "error"]

TutorOutcomes ==
    {[kind |-> "ok", val |-> l] : l \in Lessons} \cup {[kind |-> "raise", val |-> "llm"]}

tutor_agent_node(state, out) ==
    IF out.kind = "ok"
    THEN [state EXCEPT !.lesson_markdown = out.val, !.status = "lesson_ready"]
    ELSE Failed(state, "tutor failed", "tutor_agent")

ChallengeOutcomes ==
    {[kind |-> "ok", val |-> c] : c \in Challenges} \cup {[kind |-> "raise", val |-> "llm"]}

ChallengeAgentSilentFailure(state, out) ==
    IF state.lesson_markdown # Absent /\ out.kind = "ok"
    THEN [state EXCEPT !.coding_challenge = out.val, !.status = "awaiting_code"]
    ELSE state

coding_challenge_agent_node(state, out) ==
    IF state.lesson_markdown = Absent
    THEN \* state["lesson_markdown"] raises KeyError before the generator is called
         Failed(state, "'lesson_markdown'", "coding_challenge_agent")
    ELSE IF out.kind = "ok"
    THEN [state EXCEPT !.coding_challenge = out.val, !.status = "awaiting_code"]
    ELSE Failed(state, "challenge failed", "coding_challenge_agent")

AwaitOutcomes == {[kind |-> "ok", val |-> "none"]}

await_code_node(state) ==
    IF ~Truthy(state.user_code)
    THEN [state EXCEPT !.error = "No user code submitted", !.status = "awaiting_code"]
    ELSE [state EXCEPT !.status = "evaluating"]

\* The generator returns a document with passed true or false, a document
\* without a "passed" member (json.loads accepts it), or it raises.
EvaluatorOutcomes ==
    {[kind |-> "ok", val |-> v] : v \in {"pass", "fail", "no_verdict"}}
        \cup {[kind |-> "raise", val |-> "llm"]}

\* The entry code_evaluator_node appends to the list held by the state.
HistoryEntry(state, evaluation) ==
    [ attempt |-> state.attempt_count + 1,
      submission |-> state.user_code,
      evaluation |-> evaluation ]

CodeEvaluatorNoIncrement(state, out) ==
    IF state.user_code = Absent \/ state.coding_challenge = Absent \/ out.kind # "ok"
    THEN Failed(state, "evaluator failed", "code_evaluator")
    ELSE LET evaluation == EvaluationDoc(out.val, state.user_code)
             history == Append(state.submission_history, HistoryEntry(state, evaluation))
         IN  IF out.val = "no_verdict"
             THEN Failed([state EXCEPT !.submission_history = history],
                         "'passed'", "code_evaluator")
             ELSE [state EXCEPT
                     !.evaluation = evaluation,
                     !.submission_history = history,
                     !.status = IF out.val = "pass" THEN "passed" ELSE "needs_remediation",
                     !.completed_at = IF out.val = "pass" THEN "t" ELSE None]

code_evaluator_node(state, out) ==
    IF state.user_code = Absent \/ state.coding_challenge = Absent
    THEN \* state["user_code"] / state["coding_challenge"] raises KeyError
         Failed(state, "'user_code'", "code_evaluator")
    ELSE IF out.kind # "ok"
    THEN Failed(state, "evaluator failed", "code_evaluator")
    ELSE LET evaluation == EvaluationDoc(out.val, state.user_code)
             \* submission_history.append(...) changes the list of the state in
             \* place, so the entry is there on the except path too
             history == Append(state.submission_history, HistoryEntry(state, evaluation))
         IN  IF out.val = "no_verdict"
             THEN \* result["evaluation"]["passed"] raises KeyError after the append
                  Failed([state EXCEPT !.submission_history = history],
                         "'passed'", "code_evaluator")
             ELSE [state EXCEPT
                     !.evaluation = evaluation,
                     !.attempt_count = state.attempt_count + 1,
                     !.submission_history = history,
                     !.status = IF out.val = "pass" THEN "passed" ELSE "needs_remediation",
                     !.completed_at = IF out.val = "pass" THEN "t" ELSE None]

RemediationOutcomes == {[kind |-> "ok", val |-> "hint"], [kind |-> "raise", val |-> "llm"]}

RemediationKeepsCode(state, out) ==
    IF ~state.evaluation.key \/ out.kind # "ok"
    THEN Failed(state, "remediation failed", "remediation_agent")
    ELSE [state EXCEPT
            !.remediation = [key |-> TRUE, hint_level |-> HintLevel(state.attempt_count)],
            !.status = "awaiting_code"]

remediation_agent_node(state, out) ==
    IF ~state.evaluation.key
    THEN \* state["evaluation"] raises KeyError
         Failed(state, "'evaluation'", "remediation_agent")
    ELSE IF state.coding_challenge = Absent
    THEN Failed(state, "'coding_challenge'", "remediation_agent")
    ELSE IF state.user_code = Absent
    THEN Failed(state, "'user_code'", "remediation_agent")
    ELSE IF out.kind # "ok"
    THEN Failed(state, "remediation failed", "remediation_agent")
    ELSE [state EXCEPT
            !.remediation = [key |-> TRUE, hint_level |-> HintLevel(state.attempt_count)],
            !.status = "awaiting_code",
            !.user_code = None]

RouteWithAttemptLimit(state) ==
    IF state.evaluation.key /\ state.evaluation.verdict = "pass" THEN "complete"
    ELSE IF state.attempt_count >= state.max_attempts THEN "complete"
    ELSE "retry"

\* "retry" when the error slot is set, "complete" when the evaluation passed,
\* "retry" otherwise: attempt_count is only printed.
route_evaluation(state) ==
    IF Truthy(state.error) THEN "retry"
    ELSE IF state.evaluation.key /\ state.evaluation.verdict = "pass" THEN "complete"
    ELSE "retry"

(***************************************************************************)
(* The compiled graph: its edges and its interrupt.                        *)
(***************************************************************************)
SuccessorRemediationLoops(node, state) ==
    CASE node = START -> "tutor_agent"
      [] node = "tutor_agent" -> "coding_challenge_agent"
      [] node = "coding_challenge_agent" -> "await_code"
      [] node = "await_code" -> "code_evaluator"
      [] node = "code_evaluator" ->
            IF route_evaluation(state) = "complete" THEN END ELSE "remediation_agent"
      [] node = "remediation_agent" -> "code_evaluator"

Successor(node, state) ==
    CASE node = START -> "tutor_agent"
      [] node = "tutor_agent" -> "coding_challenge_agent"
      [] node = "coding_challenge_agent" -> "await_code"
      [] node = "await_code" -> "code_evaluator"
      [] node = "code_evaluator" ->
            IF route_evaluation(state) = "complete" THEN END ELSE "remediation_agent"
      [] node = "remediation_agent" -> "await_code"

NoInterrupt == {}
InterruptBefore == {"await_code"}

Outcomes(node) ==
    CASE node = "tutor_agent" -> TutorOutcomes
      [] node = "coding_challenge_agent" -> ChallengeOutcomes
      [] node = "await_code" -> AwaitOutcomes
      [] node = "code_evaluator" -> EvaluatorOutcomes
      [] node = "remediation_agent" -> RemediationOutcomes

RunNode(node, state, out) ==
    CASE node = "tutor_agent" -> tutor_agent_node(state, out)
      [] node = "coding_challenge_agent" -> coding_challenge_agent_node(state, out)
      [] node = "await_code" -> await_code_node(state)
      [] node = "code_evaluator" -> code_evaluator_node(state, out)
      [] node = "remediation_agent" -> remediation_agent_node(state, out)

\* A run stops when the graph has ended or the next node is one to interrupt before.
Halts(next) == next = END \/ next \in InterruptBefore

(***************************************************************************)
(* The record store: the challenge-progress row of an exercise.            *)
(***************************************************************************)
NoProgress ==
    [exists |-> FALSE, lesson_markdown |-> Absent, coding_challenge |-> Absent,
     completed |-> FALSE]

\* progress and progress.get("lesson_markdown") and progress.get("coding_challenge_json")
CachedWhenCompleted(progress) == progress.exists /\ progress.completed
NeverCached(progress) == FALSE
IsCached(progress) ==
    progress.exists /\ Truthy(progress.lesson_markdown) /\ Truthy(progress.coding_challenge)

AnyRowAllowed(progress) == TRUE

\* The preconditions of submit_challenge on the row: it exists (else 404) and
\* holds the lesson and the challenge (else 400).
SubmitAllowed(progress) ==
    progress.exists /\ Truthy(progress.lesson_markdown) /\ Truthy(progress.coding_challenge)

\* The single user of the record store: the profile row (get_first_user_profile)
\* and the challenges planned for the module (get_module_challenges).
NoUser == [profile |-> FALSE, module_challenges |-> FALSE]

\* No pure function is being called.
NoCall == [fn |-> "none"]

(***************************************************************************)
(* Requests.                                                               *)
(***************************************************************************)
Idle ==
    [pc |-> "idle", op |-> "none", e |-> <<0, 0>>, code |-> Absent,
     http |-> 0, detail |-> "none",
     events |-> <<>>,   \* the node names the handler's loop over the stream has seen
     out_status |-> Absent, out_evaluation |-> NoEvaluation,
     out_lesson |-> Absent, out_challenge |-> Absent]

Init ==
    /\ ckpt = [t \in Threads |-> NoCheckpoint]
    /\ db = [e \in Exercises |-> NoProgress]
    /\ req = [r \in Slots |-> Idle]
    /\ user = NoUser
    /\ calc = NoCall

Free(r) == req[r].pc = "idle"

Begin(op, e, code) ==
    [Idle EXCEPT !.op = op, !.e = e, !.code = code]

Respond(rq, http, detail) ==
    [rq EXCEPT !.pc = "idle", !.http = http, !.detail = detail]

\* setup: the profile is created if there is none, then the learning path is
\* generated; a failure of the path agent leaves the profile behind.
Setup(r) ==
    /\ Free(r)
    /\ \E ok \in BOOLEAN :
          /\ user' = [user EXCEPT !.profile = TRUE]
          /\ req' = [req EXCEPT ![r] =
                       Respond(Begin("setup", <<0, 0>>, Absent),
                               IF ok THEN 200 ELSE 500,
                               IF ok THEN "setup" ELSE "Exception")]
    /\ UNCHANGED <<ckpt, db>>
    /\ UNCHANGED calc

\* approve_path: without a profile a 404 (turned into a 500); otherwise the
\* module challenges are planned and saved, unless the planner fails.
ApprovePath(r) ==
    /\ Free(r)
    /\ \E ok \in BOOLEAN :
          /\ user' = [user EXCEPT !.module_challenges =
                                    user.module_challenges \/ (user.profile /\ ok)]
          /\ req' = [req EXCEPT ![r] =
                       Respond(Begin("approve", <<0, 0>>, Absent),
                               IF user.profile /\ ok THEN 200 ELSE 500,
                               IF ~user.profile THEN "404"
                               ELSE IF ok THEN "approved" ELSE "Exception")]
    /\ UNCHANGED <<ckpt, db>>
    /\ UNCHANGED calc

\* get_challenge without a profile or without the module's challenges: a 404
\* is raised inside the try block, and "except Exception" turns it into a 500.
GetReject(r, e) ==
    /\ Free(r)
    /\ ~(user.profile /\ user.module_challenges)
    /\ req' = [req EXCEPT ![r] = Respond(Begin("get", e, Absent), 500, "404")]
    /\ UNCHANGED <<ckpt, db, user>>
    /\ UNCHANGED calc

GetCachedRestartsSession(r, e) ==
    /\ Free(r)
    /\ user.profile /\ user.module_challenges
    /\ IsCached(db[e])
    /\ ckpt' = [ckpt EXCEPT ![ThreadOf(e)] =
                  [exists |-> TRUE,
                   values |-> create_initial_state(ckpt[ThreadOf(e)].values, ThreadOf(e)),
                   next |-> Successor(START, ckpt[ThreadOf(e)].values),
                   last |-> START]]
    /\ req' = [req EXCEPT ![r] =
                 [Respond(Begin("get", e, Absent), 200, "cached") EXCEPT
                    !.out_lesson = db[e].lesson_markdown,
                    !.out_challenge = db[e].coding_challenge]]
    /\ UNCHANGED <<db, user>>
    /\ UNCHANGED calc

\* get_challenge when the lesson and the challenge are cached: they are
\* returned from the row and the workflow is not touched.
GetCached(r, e) ==
    /\ Free(r)
    /\ user.profile /\ user.module_challenges
    /\ IsCached(db[e])
    /\ req' = [req EXCEPT ![r] =
                 [Respond(Begin("get", e, Absent), 200, "cached") EXCEPT
                    !.out_lesson = db[e].lesson_markdown,
                    !.out_challenge = db[e].coding_challenge]]
    /\ UNCHANGED <<ckpt, db, user>>
    /\ UNCHANGED calc

\* get_challenge otherwise: challenge_app.stream(initial_state, thread_config)
\* writes the input over the thread's values and starts at the entry point.
GetStart(r, e) ==
    /\ Free(r)
    /\ user.profile /\ user.module_challenges
    /\ ~IsCached(db[e])
    /\ LET t == ThreadOf(e) IN
       ckpt' = [ckpt EXCEPT ![t] =
                  [exists |-> TRUE,
                   values |-> create_initial_state(ckpt[t].values, t),
                   next |-> Successor(START, ckpt[t].values),
                   last |-> START]]
    /\ req' = [req EXCEPT ![r] = [Begin("get", e, Absent) EXCEPT !.pc = "stream"]]
    /\ UNCHANGED <<db, user>>
    /\ UNCHANGED calc

\* One step of challenge_app.stream: the next node runs on the thread's values
\* and the checkpoint is written.
StreamStep(r) ==
    /\ req[r].pc = "stream"
    /\ LET t == ThreadOf(req[r].e)
           node == ckpt[t].next
       IN  /\ node \in Nodes
           /\ \E out \in Outcomes(node) :
                LET values == RunNode(node, ckpt[t].values, out)
                    next == Successor(node, values)
                IN  /\ ckpt' = [ckpt EXCEPT ![t] =
                                  [exists |-> TRUE, values |-> values,
                                   next |-> next, last |-> node]]
                    /\ req' = [req EXCEPT ![r].pc = IF Halts(next) THEN "finish"
                                                    ELSE "stream",
                                           ![r].events = Append(@, node)]
    /\ UNCHANGED <<db, user>>
    /\ UNCHANGED calc

\* get_challenge after the stream: get_state, then the row is written.
GetFinish(r) ==
    /\ req[r].pc = "finish"
    /\ req[r].op = "get"
    /\ LET e == req[r].e
           values == ckpt[ThreadOf(e)].values
           row == [db[e] EXCEPT !.exists = TRUE]
       IN  IF values.lesson_markdown = Absent
           THEN \* raise ValueError("lesson_markdown not generated ...")
                /\ req' = [req EXCEPT ![r] = Respond(req[r], 500, "ValueError")]
                /\ UNCHANGED db
           ELSE IF values.coding_challenge = Absent
           THEN \* state_values["coding_challenge"] raises KeyError after
                \* create_challenge_progress and save_lesson_content
                /\ db' = [db EXCEPT ![e] =
                            [row EXCEPT !.lesson_markdown = values.lesson_markdown]]
                /\ req' = [req EXCEPT ![r] = Respond(req[r], 500, "KeyError")]
           ELSE /\ db' = [db EXCEPT ![e] =
                            [row EXCEPT !.lesson_markdown = values.lesson_markdown,
                                        !.coding_challenge = values.coding_challenge]]
                /\ req' = [req EXCEPT ![r] =
                             [Respond(req[r], 200, "generated")
                                EXCEPT !.out_status = values.status,
                                       !.out_lesson = values.lesson_markdown,
                                       !.out_challenge = values.coding_challenge]]
    /\ UNCHANGED <<ckpt, user>>
    /\ UNCHANGED calc

\* submit_challenge when there is no profile (404), the row is missing (404)
\* or has no content (400); the handler's "except Exception" turns the
\* HTTPException raised inside the try block into a 500.
SubmitReject(r, e, code) ==
    /\ Free(r)
    /\ ~(user.profile /\ SubmitAllowed(db[e]))
    /\ req' = [req EXCEPT ![r] =
                 Respond(Begin("submit", e, code), 500,
                         IF user.profile /\ db[e].exists THEN "400" ELSE "404")]
    /\ UNCHANGED <<ckpt, db, user>>
    /\ UNCHANGED calc

\* challenge_app.update_state(thread_config, {...}): the values are written as
\* if by the node that ran last, whose outgoing edges choose the next node.
update_state(cp, code, progress) ==
    LET values == [cp.values EXCEPT
                     !.user_code = code,
                     !.lesson_markdown = progress.lesson_markdown,
                     !.coding_challenge = progress.coding_challenge,
                     !.error = None,
                     !.error_node = None]
    IN  [exists |-> TRUE, values |-> values,
         next |-> Successor(cp.last, values), last |-> cp.last]

SubmitUpdate(r, e, code) ==
    /\ Free(r)
    /\ user.profile /\ SubmitAllowed(db[e])
    /\ LET t == ThreadOf(e)
           cp == update_state(ckpt[t], code, db[e])
       IN  /\ Len(ckpt[t].values.submission_history) < MaxAttempts
           /\ ckpt' = [ckpt EXCEPT ![t] = cp]
           /\ req' = [req EXCEPT ![r] =
                        [Begin("submit", e, code) EXCEPT
                           !.pc = IF cp.next = END THEN "finish" ELSE "stream"]]
    /\ UNCHANGED <<db, user>>
    /\ UNCHANGED calc

\* submit_challenge after the stream: get_state, record_submission, and
\* complete_challenge / unlock_next_challenge when the evaluation passed.
SubmitFinish(r) ==
    /\ req[r].pc = "finish"
    /\ req[r].op = "submit"
    /\ LET e == req[r].e
           values == ckpt[ThreadOf(e)].values
       IN  IF ~values.evaluation.key
           THEN \* state_values["evaluation"] raises KeyError
                /\ req' = [req EXCEPT ![r] = Respond(req[r], 500, "KeyError")]
                /\ UNCHANGED db
           ELSE /\ db' = [db EXCEPT ![e].completed =
                            db[e].completed \/ values.evaluation.verdict = "pass"]
                /\ req' = [req EXCEPT ![r] =
                             [Respond(req[r], 200, "evaluated") EXCEPT
                                !.out_status = values.status,
                                !.out_evaluation = values.evaluation]]
    /\ UNCHANGED <<ckpt, user>>
    /\ UNCHANGED calc

Next ==
    \E r \in Slots :
        \/ Setup(r)
        \/ ApprovePath(r)
        \/ \E e \in Exercises : GetReject(r, e)
        \/ \E e \in Exercises : GetCached(r, e)
        \/ \E e \in Exercises : GetStart(r, e)
        \/ StreamStep(r)
        \/ GetFinish(r)
        \/ \E e \in Exercises, code \in Codes : SubmitReject(r, e, code)
        \/ \E e \in Exercises, code \in Codes : SubmitUpdate(r, e, code)
        \/ SubmitFinish(r)

Spec == Init /\ [][Next]_vars

(***************************************************************************)
(* The stage functions on their own: a stream is about to run any stage on *)
(* any state, whether or not the workflow can produce that state.          *)
(***************************************************************************)
InputStates ==
    { [ EmptyValues EXCEPT
          !.status = st, !.attempt_count = n, !.user_code = uc,
          !.lesson_markdown = l, !.coding_challenge = c, !.evaluation = ev,
          !.error = er, !.error_node = en ] :
        st \in {Absent, "awaiting_code", "error"},
        n \in {0, 1},
        uc \in {Absent, None} \cup Codes,
        l \in {Absent, "L1"},
        c \in {Absent, "C1"},
        ev \in {NoEvaluation, EvaluationDoc("fail", "x")},
        er \in {Absent, "earlier failure"},
        en \in {Absent, "tutor_agent"} }

NodeInit ==
    /\ ckpt \in [Threads -> { [exists |-> TRUE, values |-> v, next |-> n, last |-> START] :
                               v \in InputStates, n \in Nodes }]
    /\ db = [e \in Exercises |-> NoProgress]
    /\ req \in [Slots -> { [Begin("submit", e, Absent) EXCEPT !.pc = "stream"] :
                             e \in Exercises }]
    /\ user = NoUser
    /\ calc = NoCall

NodeNext == \E r \in Slots : StreamStep(r)

SpecNode == NodeInit /\ [][NodeNext]_vars

(***************************************************************************)
(* The start operation without submissions: the user is set up, the path  *)
(* approved and the exercise requested, again and again; a stream that has *)
(* begun runs on, as the for loop over challenge_app.stream does inside    *)
(* the handler.                                                            *)
(***************************************************************************)
StartNext ==
    \E r \in Slots :
        \/ Setup(r)
        \/ ApprovePath(r)
        \/ \E e \in Exercises : GetReject(r, e)
        \/ \E e \in Exercises : GetCached(r, e)
        \/ \E e \in Exercises : GetStart(r, e)
        \/ StreamStep(r)
        \/ GetFinish(r)

SpecStart ==
    Init /\ [][StartNext]_vars /\ WF_vars(\E r \in Slots : StreamStep(r))

(***************************************************************************)
(* Process restarts.  The process may stop while a request is being        *)
(* served: the request gets no response, and the restarted process has the *)
(* checkpoints (SqliteSaver) and the rows (learning_system.db) as they     *)
(* were written before the stop.                                           *)
(***************************************************************************)
Crash(r) ==
    /\ req[r].pc \in {"stream", "finish"}
    /\ req' = [req EXCEPT ![r] = Respond(req[r], 0, "crash")]
    /\ UNCHANGED <<ckpt, db, user>>
    /\ UNCHANGED calc

\* The user is set up and the path approved; exercises are requested and
\* code is submitted while the process may stop at any step of a request.
RestartInit ==
    /\ ckpt = [t \in Threads |-> NoCheckpoint]
    /\ db = [e \in Exercises |-> NoProgress]
    /\ req = [r \in Slots |-> Idle]
    /\ user = [profile |-> TRUE, module_challenges |-> TRUE]
    /\ calc = NoCall

RestartNext ==
    \E r \in Slots :
        \/ \E e \in Exercises : GetCached(r, e)
        \/ \E e \in Exercises : GetStart(r, e)
        \/ StreamStep(r)
        \/ GetFinish(r)
        \/ \E e \in Exercises, code \in Codes : SubmitReject(r, e, code)
        \/ \E e \in Exercises, code \in Codes : SubmitUpdate(r, e, code)
        \/ SubmitFinish(r)
        \/ Crash(r)

SpecRestart == RestartInit /\ [][RestartNext]_vars

(***************************************************************************)
(* The session identifier on its own: start (create_initial_state) formats *)
(* it for one triple, submit for another.                                  *)
(***************************************************************************)
IdNumbers == {-1, 1, 2, 11, 112}
Triples == IdNumbers \X IdNumbers \X IdNumbers

IdInit ==
    /\ ckpt = [t \in Threads |-> NoCheckpoint]
    /\ db = [e \in Exercises |-> NoProgress]
    /\ req = [r \in Slots |-> Idle]
    /\ user = NoUser
    /\ calc \in { [fn |-> "session_id", start |-> a, submit |-> b,
                   started |-> <<>>, submitted |-> <<>>] : a \in Triples, b \in Triples }

FormatSessionIds ==
    /\ calc.fn = "session_id"
    /\ calc.started = <<>>
    /\ calc' = [calc EXCEPT
                  !.started = SessionId(calc.start[1], calc.start[2], calc.start[3]),
                  !.submitted = SubmitSessionId(calc.submit[1], calc.submit[2], calc.submit[3])]
    /\ UNCHANGED <<ckpt, db, req, user>>

SpecIds == IdInit /\ [][FormatSessionIds]_vars

(***************************************************************************)
(* Two sessions at once.  Two exercises of the user are served by two      *)
(* handler threads, one per exercise, whose steps interleave freely.       *)
(***************************************************************************)
MaxShared == 1
TwoExercises == {<<1, 1>>, <<1, 2>>}
TwoSlots == {"r1", "r2"}

\* The exercise whose requests the slot serves.
Assigned(r) == IF r = "r1" THEN <<1, 1>> ELSE <<1, 2>>

SharedInit ==
    /\ ckpt = [t \in {ThreadOf(e) : e \in TwoExercises} |-> NoCheckpoint]
    /\ db = [e \in TwoExercises |-> NoProgress]
    /\ req = [r \in TwoSlots |-> Idle]
    /\ user = [profile |-> TRUE, module_challenges |-> TRUE]
    /\ calc = NoCall

\* A submit of code "x", while the session has fewer than MaxShared submissions.
SharedSubmit(r) ==
    /\ Len(ckpt[ThreadOf(Assigned(r))].values.submission_history) < MaxShared
    /\ SubmitUpdate(r, Assigned(r), "x")

SharedNext ==
    \E r \in TwoSlots :
        \/ GetStart(r, Assigned(r))
        \/ StreamStep(r)
        \/ GetFinish(r)
        \/ SharedSubmit(r)
        \/ SubmitFinish(r)

SpecShared == SharedInit /\ [][SharedNext]_vars

(***************************************************************************)
(* Two requests for one session.  The handlers are plain def functions, so *)
(* the server runs them on threads of its pool: two requests for the same  *)
(* exercise are served at the same time, and app.py takes no lock.         *)
(***************************************************************************)
MaxStream == 3

SameInit ==
    /\ ckpt = [t \in Threads |-> NoCheckpoint]
    /\ db = [e \in Exercises |-> NoProgress]
    /\ req = [r \in TwoSlots |-> Idle]
    /\ user = [profile |-> TRUE, module_challenges |-> TRUE]
    /\ calc = NoCall

SameSubmit(r, e) ==
    /\ Len(ckpt[ThreadOf(e)].values.submission_history) < MaxShared
    /\ SubmitUpdate(r, e, "x")

\* A stream step, while the stream has run fewer than MaxStream nodes (the
\* other request can keep a stream from ever reaching its halt).
SameStream(r) ==
    /\ Len(req[r].events) < MaxStream
    /\ StreamStep(r)

SameNext ==
    \E r \in TwoSlots :
        \/ \E e \in Exercises : GetStart(r, e)
        \/ SameStream(r)
        \/ GetFinish(r)
        \/ \E e \in Exercises : SameSubmit(r, e)
        \/ SubmitFinish(r)

SpecSame == SameInit /\ [][SameNext]_vars

(***************************************************************************)
(* The structured-output step of generate_coding_challenge,                *)
(* evaluate_submission and generate_remediation: llm.invoke, json.loads,   *)
(* and on JSONDecodeError the re.sub repair and a second json.loads.       *)
(* Texts are sequences of characters; the documents are the JSON arrays    *)
(* and numbers that can be written with the characters of Alphabet.        *)
(***************************************************************************)
MaxText == 4
Alphabet == {"[", "]", "}", ",", "1", " "}
Texts == UNION {[1..n -> Alphabet] : n \in 0..MaxText}

NoDoc == [kind |-> "none"]

\* The first position from i on that holds no whitespace.
RECURSIVE SkipWs(_, _)
SkipWs(s, i) == IF i <= Len(s) /\ s[i] = " " THEN SkipWs(s, i + 1) ELSE i

\* The end of the run of digits that starts at i.
RECURSIVE SkipDigits(_, _)
SkipDigits(s, i) == IF i <= Len(s) /\ s[i] = "1" THEN SkipDigits(s, i + 1) ELSE i

ParseFailed == [ok |-> FALSE, val |-> NoDoc, next |-> 0]

\* The JSON decoder's scan of one value at position i, and of the items of
\* an array after its "[" or after a ",".
RECURSIVE ParseValue(_, _)
RECURSIVE ParseItems(_, _, _)
ParseValue(s, i) ==
    IF i > Len(s) THEN ParseFailed
    ELSE IF s[i] = "1"
    THEN [ok |-> TRUE, val |-> [kind |-> "num", digits |-> SkipDigits(s, i) - i],
          next |-> SkipDigits(s, i)]
    ELSE IF s[i] = "["
    THEN IF SkipWs(s, i + 1) <= Len(s) /\ s[SkipWs(s, i + 1)] = "]"
         THEN [ok |-> TRUE, val |-> [kind |-> "arr", items |-> <<>>],
               next |-> SkipWs(s, i + 1) + 1]
         ELSE ParseItems(s, SkipWs(s, i + 1), <<>>)
    ELSE ParseFailed

ParseItems(s, i, items) ==
    LET item == ParseValue(s, i)
        j == SkipWs(s, item.next)
    IN  IF ~item.ok \/ j > Len(s) THEN ParseFailed
        ELSE IF s[j] = "]"
        THEN [ok |-> TRUE, val |-> [kind |-> "arr", items |-> Append(items, item.val)],
              next |-> j + 1]
        ELSE IF s[j] = ","
        THEN ParseItems(s, SkipWs(s, j + 1), Append(items, item.val))
        ELSE ParseFailed

LoadsPrefix(s) ==
    LET r == ParseValue(s, SkipWs(s, 1))
    IN  IF r.ok THEN [ok |-> TRUE, val |-> r.val] ELSE [ok |-> FALSE, val |-> NoDoc]

\* json.loads: the whole text is one document, or JSONDecodeError.
Loads(s) ==
    LET r == ParseValue(s, SkipWs(s, 1))
    IN  IF r.ok /\ SkipWs(s, r.next) > Len(s)
        THEN [ok |-> TRUE, val |-> r.val]
        ELSE [ok |-> FALSE, val |-> NoDoc]

\* re.sub(r',(\s*[}\]])', r'\1', text): scanning from the left, a comma that
\* is followed by whitespace and a closing delimiter is dropped and the scan
\* goes on behind the delimiter.
RECURSIVE Normalize(_)
Normalize(s) ==
    IF s = <<>> THEN <<>>
    ELSE IF /\ s[1] = ","
            /\ SkipWs(s, 2) <= Len(s)
            /\ s[SkipWs(s, 2)] \in {"}", "]"}
    THEN SubSeq(s, 2, SkipWs(s, 2)) \o Normalize(SubSeq(s, SkipWs(s, 2) + 1, Len(s)))
    ELSE <<s[1]>> \o Normalize(Tail(s))

\* One call of a generator: the model is invoked, its text decoded.
DecodeInit ==
    /\ ckpt = [t \in Threads |-> NoCheckpoint]
    /\ db = [e \in Exercises |-> NoProgress]
    /\ req = [r \in Slots |-> Idle]
    /\ user = NoUser
    /\ calc = [fn |-> "generate", pc |-> "invoke", response |-> <<>>, text |-> <<>>,
               calls |-> 0, decodes |-> 0, doc |-> NoDoc, raised |-> FALSE]

\* response = llm.invoke(prompt): the model answers with a text, or the call raises.
Invoke ==
    /\ calc.fn = "generate"
    /\ calc.pc = "invoke"
    /\ \/ \E t \in Texts :
             calc' = [calc EXCEPT !.pc = "decode", !.response = t, !.text = t,
                                  !.calls = @ + 1]
       \/ calc' = [calc EXCEPT !.pc = "done", !.raised = TRUE, !.calls = @ + 1]
    /\ UNCHANGED <<ckpt, db, req, user>>

\* try: json.loads(response_text)
FirstDecode ==
    /\ calc.fn = "generate"
    /\ calc.pc = "decode"
    /\ calc' = IF Loads(calc.text).ok
               THEN [calc EXCEPT !.pc = "done", !.decodes = @ + 1,
                                 !.doc = Loads(calc.text).val]
               ELSE [calc EXCEPT !.pc = "repair", !.decodes = @ + 1]
    /\ UNCHANGED <<ckpt, db, req, user>>

RepairAndInvokeAgain ==
    /\ calc.fn = "generate"
    /\ calc.pc = "repair"
    /\ calc' = IF Loads(Normalize(calc.text)).ok
               THEN [calc EXCEPT !.pc = "done", !.decodes = @ + 1,
                                 !.text = Normalize(calc.text),
                                 !.doc = Loads(Normalize(calc.text)).val]
               ELSE [calc EXCEPT !.pc = IF calc.calls < 2 THEN "invoke" ELSE "done",
                                 !.decodes = 0,
                                 !.raised = calc.calls >= 2]
    /\ UNCHANGED <<ckpt, db, req, user>>

\* except json.JSONDecodeError: re.sub, json.loads again; a second
\* JSONDecodeError becomes raise Exception("Failed to parse JSON ...").
Repair ==
    /\ calc.fn = "generate"
    /\ calc.pc = "repair"
    /\ calc' = IF Loads(Normalize(calc.text)).ok
               THEN [calc EXCEPT !.pc = "done", !.decodes = @ + 1,
                                 !.text = Normalize(calc.text),
                                 !.doc = Loads(Normalize(calc.text)).val]
               ELSE [calc EXCEPT !.pc = "done", !.decodes = @ + 1,
                                 !.text = Normalize(calc.text),
                                 !.raised = TRUE]
    /\ UNCHANGED <<ckpt, db, req, user>>

DecodeNext == Invoke \/ FirstDecode \/ Repair

SpecDecode == DecodeInit /\ [][DecodeNext]_vars

\* The normalization on its own, applied to a text and to its result.
NormalizeInit ==
    /\ ckpt = [t \in Threads |-> NoCheckpoint]
    /\ db = [e \in Exercises |-> NoProgress]
    /\ req = [r \in Slots |-> Idle]
    /\ user = NoUser
    /\ calc \in { [fn |-> "normalize", pc |-> "text", text |-> t,
                   once |-> <<>>, twice |-> <<>>] : t \in Texts }

NormalizeOnce ==
    /\ calc.fn = "normalize"
    /\ calc.pc = "text"
    /\ calc' = [calc EXCEPT !.pc = "once", !.once = Normalize(calc.text)]
    /\ UNCHANGED <<ckpt, db, req, user>>

NormalizeTwice ==
    /\ calc.fn = "normalize"
    /\ calc.pc = "once"
    /\ calc' = [calc EXCEPT !.pc = "twice", !.twice = Normalize(calc.once)]
    /\ UNCHANGED <<ckpt, db, req, user>>

NormalizeNext == NormalizeOnce \/ NormalizeTwice

SpecNormalize == NormalizeInit /\ [][NormalizeNext]_vars

(***************************************************************************)
(* The generation loop of the path and roadmap agents                      *)
(* (LearningPathAgent.run, LearningPathAgentEnhanced.run,                  *)
(* ModulePlannerAgent.run): for attempt in range(max_retries).             *)
(***************************************************************************)
max_retries == 3

Agents == {"LearningPathAgent", "LearningPathAgentEnhanced", "ModulePlannerAgent"}

\* What one pass through the try block can end in: the decoded document is
\* returned, or an exception of some class with some message is raised.
\* json.JSONDecodeError is a subclass of ValueError.
NoException == [class |-> "none", message |-> "none"]
Exceptions ==
    [class : {"ValueError", "JSONDecodeError", "Exception"},
     message : {"Invalid JSON response", "429", "Resource exhausted"}]
TryOutcomes == {NoException} \cup Exceptions

IsValueError(e) == e.class \in {"ValueError", "JSONDecodeError"}
IsRateLimit(e) == e.message \in {"429", "Resource exhausted"}

RunInit ==
    /\ ckpt = [t \in Threads |-> NoCheckpoint]
    /\ db = [e \in Exercises |-> NoProgress]
    /\ req = [r \in Slots |-> Idle]
    /\ user = NoUser
    /\ calc \in { [fn |-> "run", agent |-> a, pc |-> "try", attempt |-> 0, calls |-> 0,
                   caught |-> NoException, result |-> "none", raised |-> NoException]
                  : a \in Agents }

\* The loop goes on to its next pass, or is left when range(max_retries) is
\* used up: the function then ends without a return statement.
NextPass(c) ==
    IF c.attempt + 1 < max_retries
    THEN [c EXCEPT !.pc = "try", !.attempt = @ + 1]
    ELSE [c EXCEPT !.pc = "done", !.attempt = @ + 1, !.result = "nothing"]

Raise(c, e) == [c EXCEPT !.pc = "done", !.result = "raised", !.raised = e]

\* try: response = self.llm.invoke(messages); ...; return self._extract_json(...)
RunTry ==
    /\ calc.fn = "run"
    /\ calc.pc = "try"
    /\ \E out \in TryOutcomes :
          calc' = IF out = NoException
                  THEN [calc EXCEPT !.pc = "done", !.calls = @ + 1,
                                    !.caught = NoException, !.result = "returned"]
                  ELSE [calc EXCEPT !.pc = "except", !.calls = @ + 1, !.caught = out]
    /\ UNCHANGED <<ckpt, db, req, user>>

RunExceptRetriesOnLastPass ==
    /\ calc.fn = "run"
    /\ calc.pc = "except"
    /\ calc' = IF IsValueError(calc.caught) \/ IsRateLimit(calc.caught)
               THEN NextPass(calc)
               ELSE Raise(calc, calc.caught)
    /\ UNCHANGED <<ckpt, db, req, user>>

RunExceptRetriesEveryError ==
    /\ calc.fn = "run"
    /\ calc.pc = "except"
    /\ calc' = IF calc.attempt < max_retries - 1
               THEN NextPass(calc)
               ELSE Raise(calc, calc.caught)
    /\ UNCHANGED <<ckpt, db, req, user>>

\* except (ValueError, json.JSONDecodeError): sleep and go on unless this was
\* the last pass; except Exception: the same when the message has "429" or
\* "Resource exhausted" in it, otherwise raise.
RunExcept ==
    /\ calc.fn = "run"
    /\ calc.pc = "except"
    /\ calc' = IF IsValueError(calc.caught)
               THEN IF calc.attempt < max_retries - 1
                    THEN NextPass(calc)
                    ELSE Raise(calc, calc.caught)
               ELSE IF IsRateLimit(calc.caught)
               THEN IF calc.attempt < max_retries - 1
                    THEN NextPass(calc)
                    ELSE Raise(calc, calc.caught)
               ELSE Raise(calc, calc.caught)
    /\ UNCHANGED <<ckpt, db, req, user>>

RunNext == RunTry \/ RunExcept

SpecRun == RunInit /\ [][RunNext]_vars

(***************************************************************************)
(* GET /session: the stored data of the single user and its                *)
(* classification.  The store holds the profile row, the learning-path     *)
(* row, the number of modules whose challenges are planned, and the module *)
(* of the current challenge (0 when there is none).                        *)
(***************************************************************************)
MaxModules == 3

EmptyStore ==
    [profile |-> FALSE, learning_path |-> FALSE, modules |-> 0, current |-> 0]

NoResponse ==
    [state |-> "none", user_profile |-> None, learning_path |-> None,
     current_challenge |-> None]

\* The getters of the record store: a row, or None; a list of rows.
get_first_user_profile(store) == IF store.profile THEN "row" ELSE None
get_learning_path(store) == IF store.learning_path THEN "row" ELSE None
get_all_module_challenges(store) == [m \in 1..store.modules |-> "row"]
get_current_challenge(store) ==
    IF store.current > 0 THEN "module " \o ToString(store.current) ELSE None

\* "not x" of Python on a row or None, and on a list.
Not(x) == x = None
NotAny(list) == Len(list) = 0

GetSessionChallengesFirst(store) ==
    IF Not(get_first_user_profile(store))
    THEN [NoResponse EXCEPT !.state = "new_user"]
    ELSE IF NotAny(get_all_module_challenges(store))
    THEN [NoResponse EXCEPT !.state = "path_approval",
                            !.user_profile = get_first_user_profile(store),
                            !.learning_path = get_learning_path(store)]
    ELSE [state |-> IF Not(get_current_challenge(store)) THEN "dashboard"
                    ELSE "challenge_active",
          user_profile |-> get_first_user_profile(store),
          learning_path |-> get_learning_path(store),
          current_challenge |-> get_current_challenge(store)]

get_session(store) ==
    IF Not(get_first_user_profile(store))
    THEN [NoResponse EXCEPT !.state = "new_user"]
    ELSE IF Not(get_learning_path(store))
    THEN [NoResponse EXCEPT !.state = "new_user",
                            !.user_profile = get_first_user_profile(store)]
    ELSE IF NotAny(get_all_module_challenges(store))
    THEN [NoResponse EXCEPT !.state = "path_approval",
                            !.user_profile = get_first_user_profile(store),
                            !.learning_path = get_learning_path(store)]
    ELSE [state |-> IF Not(get_current_challenge(store)) THEN "dashboard"
                    ELSE "challenge_active",
          user_profile |-> get_first_user_profile(store),
          learning_path |-> get_learning_path(store),
          current_challenge |-> get_current_challenge(store)]

SessionInit ==
    /\ ckpt = [t \in Threads |-> NoCheckpoint]
    /\ db = [e \in Exercises |-> NoProgress]
    /\ req = [r \in Slots |-> Idle]
    /\ user = NoUser
    /\ calc = [fn |-> "session", store |-> EmptyStore, response |-> NoResponse]

\* setup: the profile is created if there is none; the learning path is
\* saved unless the path agent fails.
SessionSetup ==
    /\ calc.fn = "session"
    /\ \E ok \in BOOLEAN :
          calc' = [calc EXCEPT !.store.profile = TRUE,
                               !.store.learning_path = @ \/ ok]
    /\ UNCHANGED <<ckpt, db, req, user>>

\* approve_path: needs the profile; the challenges of the request's modules
\* are planned and saved one module after the other, with the progress rows
\* of each, until the planner fails.
SessionApprovePath ==
    /\ calc.fn = "session"
    /\ calc.store.profile
    /\ \E n \in 0..MaxModules :
          calc' = [calc EXCEPT
                     !.store.modules = IF n > @ THEN n ELSE @,
                     !.store.current = IF @ = 0 /\ n > 0 THEN 1 ELSE @]
    /\ UNCHANGED <<ckpt, db, req, user>>

\* complete_challenge / unlock_next_challenge in submit_challenge: the
\* challenges of the next module become current, and after the last module
\* no current challenge is left.
SessionComplete ==
    /\ calc.fn = "session"
    /\ calc.store.current > 0
    /\ calc' = [calc EXCEPT !.store.current =
                                IF @ < calc.store.modules THEN @ + 1 ELSE 0]
    /\ UNCHANGED <<ckpt, db, req, user>>

\* reset_system: the database files are removed.
SessionReset ==
    /\ calc.fn = "session"
    /\ calc' = [calc EXCEPT !.store = EmptyStore]
    /\ UNCHANGED <<ckpt, db, req, user>>

GetSession ==
    /\ calc.fn = "session"
    /\ calc' = [calc EXCEPT !.response = get_session(calc.store)]
    /\ UNCHANGED <<ckpt, db, req, user>>

SessionNext ==
    \/ SessionSetup
    \/ SessionApprovePath
    \/ SessionComplete
    \/ SessionReset
    \/ GetSession

SpecSession == SessionInit /\ [][SessionNext]_vars

(***************************************************************************)
(* Vocabulary of the properties.                                           *)
(***************************************************************************)
Values(t) == ckpt[t].values

\* Request r is inside challenge_app.stream and the node comes next.
Running(r, node) ==
    req[r].pc = "stream" /\ ckpt[ThreadOf(req[r].e)].next = node

\* This step is request r's execution of the node.
Executes(r, node) ==
    /\ Running(r, node)
    /\ ckpt'[ThreadOf(req[r].e)] # ckpt[ThreadOf(req[r].e)]
    /\ ckpt'[ThreadOf(req[r].e)].last = node

\* No stream of any request is advancing the exercise's thread.
Quiescent(e) == \A r \in Slots : req[r].e = e => req[r].pc # "stream"

IsNull(v) == v \in {Absent, None}

(***************************************************************************)
(* C1.  In every reachable session state the length of submission_history  *)
(* equals attempt_count.                                                   *)
(***************************************************************************)
C1_HistoryLengthIsAttemptCount ==
    \A t \in Threads : Len(Values(t).submission_history) = Values(t).attempt_count

(***************************************************************************)
(* C2.  attempt_count of a session starts at 0 and no step of a start      *)
(* (GET exercise) or of a submit ever lowers or resets it.                 *)
(***************************************************************************)
C2_AttemptCountNeverDecreases ==
    [][\A t \in Threads :
          /\ ckpt'[t].values.attempt_count >= ckpt[t].values.attempt_count
          /\ (~ckpt[t].exists /\ ckpt'[t].exists) => ckpt'[t].values.attempt_count = 0]_vars

\* A GET exercise has been served for a session that has counted two attempts.
C2_Witness ==
    \E r \in Slots :
        /\ req[r].op = "get" /\ req[r].pc = "idle" /\ req[r].http = 200
        /\ Values(ThreadOf(req[r].e)).attempt_count >= 2

(***************************************************************************)
(* C3.  As claimed: every execution of code_evaluator_node increments      *)
(* attempt_count by exactly 1, and no other stage changes attempt_count.   *)
(***************************************************************************)
C3_EveryEvaluationIncrements ==
    [][\A r \in Slots : \A node \in Nodes :
          Executes(r, node) =>
             LET t == ThreadOf(req[r].e) IN
             ckpt'[t].values.attempt_count =
                ckpt[t].values.attempt_count + (IF node = "code_evaluator" THEN 1 ELSE 0)]_vars

(***************************************************************************)
(* C3, amended.  An execution of code_evaluator_node that completes        *)
(* without error increments attempt_count by exactly 1, an execution that  *)
(* fails (status "error") leaves it unchanged, and no other stage changes  *)
(* attempt_count.                                                          *)
(***************************************************************************)
C3_CompletedEvaluationIncrements ==
    [][\A r \in Slots : \A node \in Nodes :
          Executes(r, node) =>
             LET t == ThreadOf(req[r].e) IN
             ckpt'[t].values.attempt_count =
                ckpt[t].values.attempt_count +
                   (IF node = "code_evaluator" /\ ckpt'[t].values.status # "error"
                    THEN 1 ELSE 0)]_vars

\* The evaluation stage has just failed in a session that counted an attempt before.
C3_Witness ==
    \E t \in Threads :
        /\ ckpt[t].last = "code_evaluator"
        /\ ckpt[t].next = "remediation_agent"
        /\ Values(t).status = "error"
        /\ Values(t).attempt_count >= 1

(***************************************************************************)
(* C4.  When the evaluation stage records a verdict, the status becomes    *)
(* "passed" and the run ends (no remediation) if and only if the verdict   *)
(* is pass; for a failing verdict the status becomes "needs_remediation"   *)
(* and the remediation stage comes next.                                   *)
(***************************************************************************)
C4_PassEndsFailRemediates ==
    [][\A r \in Slots :
          LET t == ThreadOf(req[r].e)
              after == ckpt'[t]
          IN  (Executes(r, "code_evaluator") /\ after.values.status # "error") =>
                 /\ (after.values.evaluation.verdict = "pass") <=>
                       (after.values.status = "passed" /\ after.next = END)
                 /\ (after.values.evaluation.verdict = "fail") =>
                       (after.values.status = "needs_remediation"
                          /\ after.next = "remediation_agent")]_vars

(***************************************************************************)
(* C5.  Once a session's status is "passed", every further submit is       *)
(* rejected with a precondition error and the persisted session state is   *)
(* left unchanged.                                                         *)
(***************************************************************************)
Rejected(rq) == rq.pc = "idle" /\ rq.detail \in {"400", "404"}

C5_PassedRejectsSubmit ==
    [][\A r \in Slots :
          (Free(r) /\ req'[r] # req[r] /\ req'[r].op = "submit"
             /\ Values(ThreadOf(req'[r].e)).status = "passed") =>
                (Rejected(req'[r]) /\ ckpt' = ckpt)]_vars

(***************************************************************************)
(* C6.  A start (GET exercise) executes only the lesson and the challenge  *)
(* authoring stages and halts before await_code; await_code, evaluation    *)
(* and remediation run only in an advance triggered by a submit.           *)
(***************************************************************************)
C6_StartHaltsBeforeAwaitCode ==
    \A r \in Slots :
        LET cp == ckpt[ThreadOf(req[r].e)] IN
        /\ (req[r].op = "get" /\ req[r].pc = "stream") =>
              /\ cp.next \in {"tutor_agent", "coding_challenge_agent"}
              /\ cp.last \in {START, "tutor_agent"}
        /\ (req[r].op = "get" /\ req[r].pc = "finish") =>
              /\ cp.next = "await_code"
              /\ cp.last = "coding_challenge_agent"
        /\ (req[r].pc = "stream"
              /\ cp.next \in {"await_code", "code_evaluator", "remediation_agent"}) =>
              req[r].op = "submit"

\* A start has authored the lesson and the challenge and control is back in
\* get_challenge, with the thread halted before await_code.
C6_Witness ==
    \E r \in Slots :
        /\ req[r].op = "get" /\ req[r].pc = "finish"
        /\ ckpt[ThreadOf(req[r].e)].next = "await_code"
        /\ Values(ThreadOf(req[r].e)).status = "awaiting_code"

(***************************************************************************)
(* C7.  Advancing a session at the suspend point with no submission        *)
(* present (user_code absent, None or empty) is a no-op: the state is      *)
(* unchanged and the evaluation stage does not run; with a submission      *)
(* present the status becomes "evaluating".                                *)
(***************************************************************************)
C7_AwaitWithoutSubmissionIsNoOp ==
    [][\A r \in Slots :
          LET t == ThreadOf(req[r].e) IN
          Executes(r, "await_code") =>
             IF Truthy(ckpt[t].values.user_code)
             THEN ckpt'[t].values.status = "evaluating"
             ELSE /\ ckpt'[t].values = ckpt[t].values
                  /\ ~Running(r, "code_evaluator")']_vars

(***************************************************************************)
(* C8.  Once lesson_markdown (respectively coding_challenge) has been set  *)
(* in a session, no later operation on that session changes its value.     *)
(***************************************************************************)
C8_LessonAndChallengeImmutable ==
    [][\A t \in Threads :
          /\ ckpt[t].values.lesson_markdown # Absent =>
                ckpt'[t].values.lesson_markdown = ckpt[t].values.lesson_markdown
          /\ ckpt[t].values.coding_challenge # Absent =>
                ckpt'[t].values.coding_challenge = ckpt[t].values.coding_challenge]_vars

(***************************************************************************)
(* C9.  As claimed: in every persisted session state user_code is non-null *)
(* only while status is "evaluating".                                      *)
(***************************************************************************)
C9_UserCodeOnlyWhileEvaluating ==
    \A t \in Threads : ~IsNull(Values(t).user_code) => Values(t).status = "evaluating"

(***************************************************************************)
(* C9, amended.  In the session state persisted when a workflow advance    *)
(* has halted (at the suspend point or at END), user_code is non-null only *)
(* when status is "passed" or "error"; in particular, after a failing      *)
(* evaluation and its remediation the session waits at "awaiting_code"     *)
(* with user_code = None, so the next evaluation requires a freshly        *)
(* supplied submission.                                                    *)
(***************************************************************************)
C9_UserCodeClearedAtSuspend ==
    \A e \in Exercises :
        LET t == ThreadOf(e) IN
        Quiescent(e) =>
           /\ ~IsNull(Values(t).user_code) => Values(t).status \in {"passed", "error"}
           /\ (ckpt[t].last = "remediation_agent" /\ Values(t).status = "awaiting_code") =>
                 Values(t).user_code = None

\* A failing evaluation has been remediated and the session waits for a submission.
C9_Witness ==
    \E e \in Exercises :
        LET t == ThreadOf(e) IN
        /\ Quiescent(e)
        /\ ckpt[t].last = "remediation_agent"
        /\ Values(t).status = "awaiting_code"
        /\ Values(t).evaluation.verdict = "fail"
        /\ Values(t).user_code = None

(***************************************************************************)
(* C10.  In every reachable session state the error slot is non-null only  *)
(* when status is "error".                                                 *)
(***************************************************************************)
C10_ErrorOnlyInErrorStatus ==
    \A t \in Threads : Values(t).status # "error" => IsNull(Values(t).error)

\* Request r's advance is about to run a stage although the stage before it in
\* this advance has failed: the state still carries that stage's error.
PreviousStageFailed(r) ==
    /\ req[r].pc = "stream"
    /\ ckpt[ThreadOf(req[r].e)].last \in Nodes
    /\ ckpt[ThreadOf(req[r].e)].next \in Nodes
    /\ Values(ThreadOf(req[r].e)).status = "error"

(***************************************************************************)
(* C11.  When a stage fails the session status becomes "error" and the     *)
(* error slot records the message and the originating stage: a stage that  *)
(* fails first sets error_node to its own name with a message, and the     *)
(* error_node set by the stage that failed first in an advance is not      *)
(* replaced by a later stage of the same advance.                          *)
(***************************************************************************)
C11_ErrorNodeNamesOrigin ==
    [][\A r \in Slots : \A node \in Nodes :
          Executes(r, node) =>
             LET t == ThreadOf(req[r].e) IN
             /\ (~PreviousStageFailed(r) /\ Values(t)'.status = "error") =>
                   /\ Values(t)'.error_node = node
                   /\ ~IsNull(Values(t)'.error)
             /\ PreviousStageFailed(r) =>
                   /\ Values(t)'.status = "error"
                   /\ Values(t)'.error_node = Values(t).error_node
                   /\ Values(t)'.error = Values(t).error]_vars

(***************************************************************************)
(* C12.  After a stage has set status "error" no further stage executes in *)
(* the same advance: challenge authoring does not run after a lesson       *)
(* failure and remediation does not run after an evaluation failure.       *)
(***************************************************************************)
C12_NoStageAfterError ==
    [][\A r \in Slots : \A node \in Nodes :
          Executes(r, node) => ~PreviousStageFailed(r)]_vars

(***************************************************************************)
(* C13.  No stage function lets an exception escape.  Whatever the input   *)
(* state and whatever its collaborator does, the stage returns a state     *)
(* (the keys of its input, with a status); when the collaborator raises,   *)
(* and whenever the returned status is "error", the failure is reported    *)
(* with error set and error_node naming the stage.                         *)
(***************************************************************************)
C13_StageReturnsAState ==
    \A r \in Slots : \A node \in Nodes :
        Running(r, node) =>
           \A out \in Outcomes(node) :
              LET state == Values(ThreadOf(req[r].e))
                  result == RunNode(node, state, out)
              IN  /\ DOMAIN result = DOMAIN state
                  /\ result.status # Absent
                  /\ out.kind = "raise" => result.status = "error"
                  /\ result.status = "error" =>
                        /\ result.error_node = node
                        /\ ~IsNull(result.error)

\* A stage has run on a state that misses what it reads, after another stage's
\* error, and has returned the state with its own failure reported.
C13_Witness ==
    \E t \in Threads :
        /\ ckpt[t].last = "remediation_agent"
        /\ Values(t).status = "error"
        /\ Values(t).error_node = "remediation_agent"
        /\ Values(t).error = "'coding_challenge'"

(***************************************************************************)
(* C14.  A stage that fails leaves lesson_markdown, coding_challenge,      *)
(* submission_history and attempt_count as they were, so a failed          *)
(* evaluation followed by a successful re-submission counts exactly one    *)
(* attempt and one history entry.                                          *)
(***************************************************************************)
C14_FailingStageKeepsContent ==
    [][\A r \in Slots : \A node \in Nodes :
          LET t == ThreadOf(req[r].e) IN
          (Executes(r, node) /\ Values(t)'.status = "error") =>
             /\ Values(t)'.lesson_markdown = Values(t).lesson_markdown
             /\ Values(t)'.coding_challenge = Values(t).coding_challenge
             /\ Values(t)'.submission_history = Values(t).submission_history
             /\ Values(t)'.attempt_count = Values(t).attempt_count]_vars

\* A precondition of submit fails for the exercise: no user, no progress
\* record, or the lesson or the challenge is not in the record.
PreconditionFails(e) ==
    \/ ~user.profile
    \/ ~db[e].exists
    \/ ~Truthy(db[e].lesson_markdown)
    \/ ~Truthy(db[e].coding_challenge)

\* This step is the arrival of a submit request for the exercise at slot r.
SubmitArrives(r, e) ==
    /\ req[r].pc = "idle"
    /\ req'[r] # req[r]
    /\ req'[r].op = "submit"
    /\ req'[r].e = e

(***************************************************************************)
(* C15.  A submit whose precondition fails (no user, no progress record,   *)
(* content not cached) is rejected before update_state and before any      *)
(* stage: the request ends at once with an error response, and the         *)
(* persisted session state and the record store are unchanged.             *)
(***************************************************************************)
C15_RejectedSubmitChangesNothing ==
    [][\A r \in Slots : \A e \in Exercises :
          (SubmitArrives(r, e) /\ PreconditionFails(e)) =>
             /\ req'[r].pc = "idle"
             /\ req'[r].http # 200
             /\ ckpt' = ckpt
             /\ db' = db
             /\ user' = user]_vars

\* A submit has been rejected for an exercise whose thread has a checkpoint
\* (the start generated the lesson, the challenge stage failed).
C15_Witness ==
    \E r \in Slots :
        /\ req[r].op = "submit"
        /\ req[r].pc = "idle"
        /\ req[r].http # 200
        /\ PreconditionFails(req[r].e)
        /\ ckpt[ThreadOf(req[r].e)].exists
        /\ Values(ThreadOf(req[r].e)).lesson_markdown # Absent

(***************************************************************************)
(* C16.  Failures are reported by category: a missing user or record is a  *)
(* 404, a submit before the content is cached is a 400, and only an        *)
(* unrecoverable stage error is a 500: the 404 or 400 raised inside a      *)
(* handler reaches the caller with that same code.                         *)
(***************************************************************************)
C16_ErrorCodeByCategory ==
    \A r \in Slots :
        req[r].pc = "idle" =>
           /\ req[r].detail = "404" => req[r].http = 404
           /\ req[r].detail = "400" => req[r].http = 400
           /\ req[r].http = 500 => req[r].detail \notin {"404", "400"}

(***************************************************************************)
(* C17.  The hint level of a remediation keyed by attempt count n >= 1 is  *)
(* min(n, 3): 1 for the first failure, 2 for the second, 3 from the third  *)
(* on; over the remediations of a session it never decreases.              *)
(***************************************************************************)
C17_HintLevelIsCappedCount ==
    [][\A r \in Slots :
          LET t == ThreadOf(req[r].e)
              n == Values(t).attempt_count
          IN  (Executes(r, "remediation_agent") /\ Values(t)'.status = "awaiting_code") =>
                 /\ n >= 1
                 /\ Values(t)'.remediation.key
                 /\ n = 1 => Values(t)'.remediation.hint_level = 1
                 /\ n = 2 => Values(t)'.remediation.hint_level = 2
                 /\ n >= 3 => Values(t)'.remediation.hint_level = 3
                 /\ Values(t)'.remediation.hint_level >= Values(t).remediation.hint_level]_vars

\* The fourth failure has been remediated at the level of the third.
C17_Witness ==
    \E t \in Threads :
        /\ ckpt[t].last = "remediation_agent"
        /\ Values(t).status = "awaiting_code"
        /\ Values(t).attempt_count = 4
        /\ Values(t).remediation.hint_level = 3

\* The advance of an accepted submit has halted and no stage has failed in
\* the session: nothing names a failing stage and every evaluation so far
\* has been completed and counted.
SubmitHaltedWithoutStageError(r) ==
    /\ req[r].op = "submit"
    /\ req[r].pc = "finish"
    /\ Values(ThreadOf(req[r].e)).status # "error"
    /\ IsNull(Values(ThreadOf(req[r].e)).error_node)
    /\ Len(Values(ThreadOf(req[r].e)).submission_history) >= 1
    /\ \A i \in 1..Len(Values(ThreadOf(req[r].e)).submission_history) :
          Values(ThreadOf(req[r].e)).submission_history[i].attempt = i

(***************************************************************************)
(* C18.  From start, k failing submissions followed by one passing         *)
(* submission, with no stage error: after the i-th failure the hint level  *)
(* is min(i, 3), status is "awaiting_code" and user_code is cleared; after *)
(* the pass status is "passed" and attempt_count = len(submission_history) *)
(* = k + 1.                                                                *)
(***************************************************************************)
C18_FailuresThenPass ==
    \A r \in Slots :
        SubmitHaltedWithoutStageError(r) =>
           LET values == Values(ThreadOf(req[r].e))
               i == Len(values.submission_history)
               verdict == values.submission_history[i].evaluation.verdict
           IN  /\ verdict = "fail" =>
                     /\ values.status = "awaiting_code"
                     /\ values.user_code = None
                     /\ values.attempt_count = i
                     /\ values.remediation.hint_level = (IF i < 3 THEN i ELSE 3)
               /\ verdict = "pass" =>
                     /\ values.status = "passed"
                     /\ values.attempt_count = i

(***************************************************************************)
(* C19.  No maximum attempt count is enforced.  For every attempt count n, *)
(* n >= max_attempts included, a failing evaluation routes to remediation, *)
(* and after the remediation the session is back at the suspend point and  *)
(* a further submission is accepted; max_attempts is never changed by a    *)
(* stage.                                                                  *)
(***************************************************************************)
C19_NoAttemptLimit ==
    [][\A r \in Slots :
          LET t == ThreadOf(req[r].e) IN
          /\ (Executes(r, "code_evaluator") /\ Values(t)'.status = "needs_remediation") =>
                /\ ckpt'[t].next = "remediation_agent"
                /\ req'[r].pc = "stream"
          /\ Executes(r, "remediation_agent") =>
                /\ ckpt'[t].next = "await_code"
                /\ req'[r].pc = "finish"
                /\ user.profile /\ SubmitAllowed(db[req[r].e])
          /\ \A node \in Nodes :
                Executes(r, node) => Values(t)'.max_attempts = Values(t).max_attempts]_vars

\* The session has failed more often than max_attempts and waits for the
\* next submission.
C19_Witness ==
    \E t \in Threads :
        /\ Values(t).attempt_count > Values(t).max_attempts
        /\ Values(t).max_attempts = DefaultMaxAttempts
        /\ Values(t).evaluation.verdict = "fail"
        /\ ckpt[t].last = "remediation_agent"
        /\ ckpt[t].next = "await_code"
        /\ Values(t).status = "awaiting_code"

(***************************************************************************)
(* C20.  submission_history is append-only and in attempt order: a step    *)
(* leaves the entries it holds as a prefix of the new history, and the     *)
(* i-th entry has attempt = i.                                             *)
(***************************************************************************)
C20_HistoryAppendOnlyInOrder ==
    [][\A t \in Threads :
          LET old == Values(t).submission_history
              new == Values(t)'.submission_history
          IN  /\ Len(new) >= Len(old)
              /\ \A i \in 1..Len(old) : new[i] = old[i]
              /\ \A i \in 1..Len(new) : new[i].attempt = i]_vars

\* Request r is a start (get_challenge that found nothing cached) at the position.
Starting(r, pc) == req[r].op = "get" /\ req[r].pc = pc

(***************************************************************************)
(* C21.  A start creates the session at status "creating_lesson" with      *)
(* attempt_count 0 and an empty history, and always terminates, with the   *)
(* session at status "awaiting_code" (lesson and challenge both set) or    *)
(* "error": it never ends at "creating_lesson" or "lesson_ready".          *)
(***************************************************************************)
C21_StartEndsAwaitingOrError ==
    \A r \in Slots :
        /\ [](\A t \in Threads :
                (Starting(r, "stream") /\ t = ThreadOf(req[r].e)
                   /\ ckpt[t].next = "tutor_agent") =>
                      /\ Values(t).status = "creating_lesson"
                      /\ Values(t).attempt_count = 0
                      /\ Values(t).submission_history = <<>>)
        /\ [](\A t \in Threads :
                (Starting(r, "finish") /\ t = ThreadOf(req[r].e)) =>
                   \/ /\ Values(t).status = "awaiting_code"
                      /\ Truthy(Values(t).lesson_markdown)
                      /\ Truthy(Values(t).coding_challenge)
                   \/ Values(t).status = "error")
        /\ (Starting(r, "stream") ~> Starting(r, "finish"))

\* A start has ended with the lesson and the challenge generated.
C21_Witness ==
    \E r \in Slots :
        /\ Starting(r, "finish")
        /\ Values(ThreadOf(req[r].e)).status = "awaiting_code"
        /\ Values(ThreadOf(req[r].e)).coding_challenge \in Challenges

\* How often the node occurs among the events of a stream.
Count(events, node) == Cardinality({i \in 1..Len(events) : events[i] = node})

C23_SubmitUsesGeneratedContent ==
    /\ \A r \in Slots :
          req[r].op = "submit" =>
             /\ Count(req[r].events, "tutor_agent") = 0
             /\ Count(req[r].events, "coding_challenge_agent") = 0
    /\ \A e \in Exercises :
          (user.profile /\ SubmitAllowed(db[e])) =>
             /\ Values(ThreadOf(e)).lesson_markdown = db[e].lesson_markdown
             /\ Values(ThreadOf(e)).coding_challenge = db[e].coding_challenge

\* A submit has been evaluated on the content the start generated.
C23_Witness ==
    \E r \in Slots :
        /\ req[r].op = "submit"
        /\ req[r].pc = "finish"
        /\ req[r].events = <<"await_code", "code_evaluator">>
        /\ Values(ThreadOf(req[r].e)).evaluation.verdict = "pass"
        /\ Values(ThreadOf(req[r].e)).coding_challenge = db[req[r].e].coding_challenge
        /\ Values(ThreadOf(req[r].e)).coding_challenge \in Challenges

(***************************************************************************)
(* C24.  If lesson authoring completed and was checkpointed but challenge  *)
(* authoring did not complete, the next start for the same session resumes *)
(* from the last completed stage: it runs challenge authoring and does not *)
(* run lesson authoring again.                                             *)
(***************************************************************************)
C24_StartResumesAfterLesson ==
    [][\A r \in Slots : \A e \in Exercises :
          LET t == ThreadOf(e) IN
          (/\ req[r].pc = "idle"
           /\ req'[r].e = e
           /\ req'[r].op = "get"
           /\ req'[r].pc = "stream"
           /\ ckpt[t].exists
           /\ Truthy(Values(t).lesson_markdown)
           /\ ~Truthy(Values(t).coding_challenge)) =>
              /\ ckpt'[t].next = "coding_challenge_agent"
              /\ Values(t)'.lesson_markdown = Values(t).lesson_markdown]_vars

(***************************************************************************)
(* C25.  The session identifier is a deterministic function of (user_id,   *)
(* module_number, challenge_number): the identifier submit computes equals *)
(* the one start created for the same triple, and two different triples    *)
(* never yield the same identifier.                                        *)
(***************************************************************************)
C25_SessionIdIsInjective ==
    (calc.fn = "session_id" /\ calc.started # <<>>) =>
        /\ calc.start = calc.submit => calc.started = calc.submitted
        /\ calc.start # calc.submit => calc.started # calc.submitted

\* Identifiers have been formatted for two triples with the same digits in a row.
C25_Witness ==
    /\ calc.fn = "session_id"
    /\ calc.start = <<1, 11, 2>>
    /\ calc.submit = <<11, 1, 2>>
    /\ calc.started = <<"u", "s", "e", "r", "_", "1", "_", "m", "1", "1", "_", "c", "2">>
    /\ calc.submitted # <<>>

\* The fields of a session's checkpointed state that the claim names.
SessionState(e) ==
    [ status |-> Values(ThreadOf(e)).status,
      attempt_count |-> Values(ThreadOf(e)).attempt_count,
      submission_history |-> Values(ThreadOf(e)).submission_history,
      user_code |-> Values(ThreadOf(e)).user_code,
      lesson_markdown |-> Values(ThreadOf(e)).lesson_markdown,
      coding_challenge |-> Values(ThreadOf(e)).coding_challenge ]

(***************************************************************************)
(* C26.  Sessions are isolated: under any interleaving of start and submit *)
(* operations on different sessions, a step of an operation on session A   *)
(* never changes the checkpointed state (status, attempt_count,            *)
(* submission_history, user_code, lesson, challenge) of a session B        *)
(* different from A.                                                       *)
(***************************************************************************)
C26_SessionsAreIsolated ==
    [][\A r \in DOMAIN req : \A b \in DOMAIN db :
          (req'[r] # req[r] /\ req'[r].e # b) =>
             /\ SessionState(b)' = SessionState(b)
             /\ ckpt'[ThreadOf(b)] = ckpt[ThreadOf(b)]]_vars

\* Two sessions are being advanced at the same time, one inside a submit and
\* one inside a start, and hold different content.
C26_Witness ==
    /\ DOMAIN db = TwoExercises
    /\ req["r1"].op = "submit" /\ req["r1"].pc = "stream"
    /\ req["r2"].op = "get" /\ req["r2"].pc = "stream"
    /\ SessionState(<<1, 1>>).lesson_markdown = "L1"
    /\ SessionState(<<1, 2>>).lesson_markdown = "L2"
    /\ SessionState(<<1, 1>>).status = "needs_remediation"
    /\ SessionState(<<1, 2>>).status = "lesson_ready"

(***************************************************************************)
(* C27.  For one session at most one workflow advance is in progress at    *)
(* any time, also when two submit requests for the same session arrive     *)
(* concurrently: their update_state / stream steps do not interleave.      *)
(***************************************************************************)
C27_OneAdvancePerSession ==
    \A e \in DOMAIN db :
        Cardinality({r \in DOMAIN req : req[r].pc = "stream" /\ req[r].e = e}) <= 1

(***************************************************************************)
(* C28.  In the structured-output step of the challenge, evaluation and    *)
(* remediation generators: if the first decode fails and the decode of the *)
(* normalized text succeeds, the normalized document is returned; if the   *)
(* decode of the normalized text fails too, an error is raised; in no case *)
(* is a partially decoded document returned (what is returned is the       *)
(* decode of a whole text).                                                *)
(***************************************************************************)
C28_RepairBoundary ==
    (calc.fn = "generate" /\ calc.pc = "done" /\ calc.decodes >= 1) =>
       /\ calc.raised <=> calc.doc = NoDoc
       /\ calc.decodes = 1 =>
             /\ Loads(calc.response).ok
             /\ calc.doc = Loads(calc.response).val
       /\ calc.decodes = 2 =>
             /\ ~Loads(calc.response).ok
             /\ calc.text = Normalize(calc.response)
             /\ Loads(calc.text).ok => (~calc.raised /\ calc.doc = Loads(calc.text).val)
             /\ ~Loads(calc.text).ok => calc.raised
       /\ ~calc.raised =>
             /\ ParseValue(calc.text, SkipWs(calc.text, 1)).ok
             /\ calc.doc = ParseValue(calc.text, SkipWs(calc.text, 1)).val
             /\ SkipWs(calc.text, ParseValue(calc.text, SkipWs(calc.text, 1)).next)
                   > Len(calc.text)

\* The answer "[1,]" has failed to decode and, normalized to "[1]", has been
\* decoded into the array of one number.
C28_Witness ==
    /\ calc.fn = "generate"
    /\ calc.pc = "done"
    /\ calc.response = <<"[", "1", ",", "]">>
    /\ calc.text = <<"[", "1", "]">>
    /\ calc.decodes = 2
    /\ calc.doc = [kind |-> "arr", items |-> <<[kind |-> "num", digits |-> 1]>>]

(***************************************************************************)
(* C29.  The normalization applied on a decode failure (removing a comma   *)
(* that precedes optional whitespace and a closing "}" or "]") is          *)
(* idempotent: normalize(normalize(t)) = normalize(t) for every text t.    *)
(***************************************************************************)
C29_NormalizeIdempotent ==
    (calc.fn = "normalize" /\ calc.pc = "twice") => calc.twice = calc.once

(***************************************************************************)
(* C30.  Each invocation of a generator by a workflow stage makes exactly  *)
(* one external generator call and at most two decode attempts (the        *)
(* original and one after normalization); the generator is not called      *)
(* again after a failure.                                                  *)
(***************************************************************************)
C30_OneCallTwoDecodes ==
    calc.fn = "generate" =>
       /\ calc.calls <= 1
       /\ calc.decodes <= 2
       /\ calc.pc # "invoke" => calc.calls = 1
       /\ calc.raised => calc.pc = "done"

\* The generator has been called once, both decodes have failed and the error
\* has been raised.
C30_Witness ==
    /\ calc.fn = "generate"
    /\ calc.pc = "done"
    /\ calc.raised
    /\ calc.calls = 1
    /\ calc.decodes = 2

\* This step is the arrival of a GET exercise request for the exercise at slot r.
GetArrives(r, e) ==
    /\ req[r].pc = "idle"
    /\ req'[r] # req[r]
    /\ req'[r].op = "get"
    /\ req'[r].e = e

(***************************************************************************)
(* C31.  Once the lesson and the challenge of an exercise are both cached  *)
(* in its progress record, every further GET exercise for it answers at    *)
(* once with the cached lesson and challenge: no workflow stage runs, no   *)
(* generator is called, and the checkpointed session state (and the record *)
(* store) is unchanged.                                                    *)
(***************************************************************************)
C31_CachedGetTouchesNothing ==
    [][\A r \in Slots : \A e \in Exercises :
          (GetArrives(r, e) /\ Truthy(db[e].lesson_markdown)
                            /\ Truthy(db[e].coding_challenge)) =>
             /\ req'[r].pc = "idle"
             /\ req'[r].http = 200
             /\ req'[r].out_lesson = db[e].lesson_markdown
             /\ req'[r].out_challenge = db[e].coding_challenge
             /\ req'[r].events = <<>>
             /\ ckpt' = ckpt
             /\ db' = db]_vars

\* A GET has been answered from the cache for a session that has already
\* taken a failed attempt.
C31_Witness ==
    \E r \in Slots :
        /\ req[r].op = "get"
        /\ req[r].pc = "idle"
        /\ req[r].detail = "cached"
        /\ req[r].out_lesson = db[req[r].e].lesson_markdown
        /\ req[r].out_challenge = db[req[r].e].coding_challenge
        /\ Values(ThreadOf(req[r].e)).attempt_count >= 1

\* The closed set of statuses and the position of each in the pipeline; the
\* error status is orthogonal and has no position.
Statuses ==
    {"creating_lesson", "lesson_ready", "awaiting_code", "evaluating", "passed",
     "needs_remediation", "error"}

PipelineOrder(status) ==
    CASE status = "creating_lesson" -> 1
      [] status = "lesson_ready" -> 2
      [] status = "awaiting_code" -> 3
      [] status = "evaluating" -> 4
      [] status \in {"passed", "needs_remediation"} -> 5

\* The status of a session goes backwards in this step.
GoesBackwards(t) ==
    /\ ckpt[t].exists
    /\ Values(t).status \in Statuses \ {"error"}
    /\ ckpt'[t].values.status \in Statuses \ {"error"}
    /\ PipelineOrder(ckpt'[t].values.status) < PipelineOrder(Values(t).status)

(***************************************************************************)
(* C32.  In every reachable session state the status is one of             *)
(* creating_lesson, lesson_ready, awaiting_code, evaluating, passed,       *)
(* needs_remediation, error; and the only change of status that goes       *)
(* backwards in the pipeline order is the retry loop from                  *)
(* needs_remediation back to awaiting_code.                                *)
(***************************************************************************)
C32_StatusClosedAndOneDirectional ==
    [][\A t \in Threads :
          /\ ckpt'[t].exists => ckpt'[t].values.status \in Statuses
          /\ GoesBackwards(t) =>
                /\ Values(t).status = "needs_remediation"
                /\ ckpt'[t].values.status = "awaiting_code"]_vars

(***************************************************************************)
(* C33.  In every successful submit response, the evaluation returned (and *)
(* handed to record_submission with the request's code) was produced by    *)
(* evaluating that request's code in that same call: the evaluation stage  *)
(* ran in the call and the evaluation is of the code of the request, never *)
(* one left in the state by an earlier attempt.                            *)
(***************************************************************************)
C33_EvaluationIsOfThisSubmission ==
    \A r \in Slots :
        (req[r].op = "submit" /\ req[r].pc = "idle" /\ req[r].http = 200) =>
           /\ Count(req[r].events, "code_evaluator") = 1
           /\ req[r].out_evaluation.key
           /\ req[r].out_evaluation.of = req[r].code

\* This step is the return of the submit request at slot r.
SubmitReturns(r) ==
    /\ req[r].op = "submit"
    /\ req[r].pc = "finish"
    /\ req'[r].pc = "idle"

(***************************************************************************)
(* C34.  The record store marks an exercise completed (and unlocks the     *)
(* next one) only in a submit call whose final workflow status is          *)
(* "passed"; a submit that returns with status "awaiting_code" or "error"  *)
(* has not marked the exercise completed.                                  *)
(***************************************************************************)
C34_CompletedOnlyWhenPassed ==
    [][\A r \in Slots :
          (SubmitReturns(r) /\ db'[req[r].e].completed /\ ~db[req[r].e].completed) =>
             Values(ThreadOf(req[r].e)).status = "passed"]_vars

(***************************************************************************)
(* C35.  Whenever the remediation stage produces a hint, the attempt_count *)
(* it is keyed by is at least 1 and equals the number of evaluations       *)
(* recorded so far (the entries of submission_history), so the hint level  *)
(* is in 1..3 and never 0.                                                 *)
(***************************************************************************)
C35_HintKeyedByRecordedAttempts ==
    [][\A r \in Slots :
          LET t == ThreadOf(req[r].e)
          IN  (Executes(r, "remediation_agent") /\ ckpt'[t].values.status = "awaiting_code") =>
                 /\ Values(t).attempt_count >= 1
                 /\ Values(t).attempt_count = Len(Values(t).submission_history)
                 /\ ckpt'[t].values.remediation.hint_level \in 1..MaxHintLevel]_vars

(***************************************************************************)
(* C36.  In every reachable session state, completed_at is set (not null)  *)
(* if and only if the status is "passed".                                  *)
(***************************************************************************)
C36_CompletedAtIffPassed ==
    \A t \in Threads :
        ckpt[t].exists => (~IsNull(Values(t).completed_at) <=> Values(t).status = "passed")

(***************************************************************************)
(* C37.  The generation loop of the path and roadmap agents ends after at  *)
(* most 3 generator calls whatever the outcomes are, and it ends either by *)
(* returning a decoded document or by raising the last error: it never     *)
(* falls out of the loop returning nothing.                                *)
(***************************************************************************)
C37_LoopEndsWithinThreeCalls ==
    calc.fn = "run" =>
       /\ calc.calls <= 3
       /\ calc.pc # "done" => (calc.attempt < max_retries /\ calc.result = "none")
       /\ calc.pc = "done" =>
             /\ calc.result \in {"returned", "raised"}
             /\ calc.result = "returned" => calc.caught = NoException
             /\ calc.result = "raised" =>
                   (calc.raised = calc.caught /\ calc.caught # NoException)

\* Three malformed answers in a row: the third error has been raised after
\* the third call.
C37_Witness ==
    /\ calc.fn = "run"
    /\ calc.pc = "done"
    /\ calc.calls = 3
    /\ calc.result = "raised"
    /\ IsValueError(calc.raised)

(***************************************************************************)
(* C38.  In that loop only malformed-output errors (ValueError, JSON       *)
(* decode) and rate-limit errors (a message containing "429" or "Resource  *)
(* exhausted") are retried; any other exception of the generator is        *)
(* re-raised at once, with no further generator call.                      *)
(***************************************************************************)
C38_OnlyMalformedAndRateLimitRetried ==
    [][(calc.fn = "run" /\ calc.pc = "except") =>
          /\ calc'.pc = "try" =>
                (calc.caught.class \in {"ValueError", "JSONDecodeError"}
                    \/ calc.caught.message \in {"429", "Resource exhausted"})
          /\ (calc.caught.class = "Exception"
                 /\ calc.caught.message \notin {"429", "Resource exhausted"}) =>
                /\ calc'.pc = "done"
                /\ calc'.result = "raised"
                /\ calc'.raised = calc.caught
                /\ calc'.calls = calc.calls]_vars

\* After a rate-limit error was retried, another error has been raised at
\* once, on the second call.
C38_Witness ==
    /\ calc.fn = "run"
    /\ calc.pc = "done"
    /\ calc.result = "raised"
    /\ calc.calls = 2
    /\ calc.raised.class = "Exception"
    /\ calc.raised.message = "Invalid JSON response"

\* This step is an answer of GET /session.
SessionAnswered ==
    /\ calc.fn = "session"
    /\ calc'.store = calc.store
    /\ calc'.response # calc.response

(***************************************************************************)
(* C39.  GET /session classifies the stored data as documented: "new_user" *)
(* exactly when there is no user or no learning path, "path_approval"      *)
(* exactly when a learning path exists but no module challenges, and       *)
(* otherwise "challenge_active" if a current challenge exists and          *)
(* "dashboard" if not.                                                     *)
(***************************************************************************)
C39_SessionClassification ==
    [][SessionAnswered =>
          /\ calc'.response.state = "new_user" <=>
                (~calc.store.profile \/ ~calc.store.learning_path)
          /\ calc'.response.state = "path_approval" <=>
                (calc.store.learning_path /\ calc.store.modules = 0)
          /\ (calc.store.profile /\ calc.store.learning_path /\ calc.store.modules > 0) =>
                calc'.response.state =
                   IF calc.store.current > 0 THEN "challenge_active" ELSE "dashboard"]_vars

\* With a profile but no learning path, and challenges planned by an
\* approval, the answer has been "new_user".
C39_Witness ==
    /\ calc.fn = "session"
    /\ calc.store.profile
    /\ ~calc.store.learning_path
    /\ calc.store.modules > 0
    /\ calc.response.state = "new_user"
    /\ calc.response.user_profile = "row"

====
